---- MODULE Spec2Model ----
(***************************************************************************)
(* A model of the streaming brainfuck interpreter of src/src/main.rs.      *)
(*                                                                         *)
(* The engine state is the record `status` (struct BrainfuckVMStatus).     *)
(* run_vm is recursive: a loop-end that replays re-enters run_vm for every *)
(* buffered instruction.  The recursion is modelled by the explicit call   *)
(* stack `frames`: one frame per activation of the LoopEndOp arm that is   *)
(* inside its `while` loops, holding the local `current` and the position  *)
(* of the activation.  While `frames` is non-empty no character is read    *)
(* from the source, exactly as main() is blocked inside run_vm.            *)
(***************************************************************************)
EXTENDS Integers, Sequences, FiniteSets, TLC

VARIABLES
    status,      \* BrainfuckVMStatus
    frames,      \* call stack of LoopEndOp activations that are replaying
    output,      \* bytes written to stdout so far
    aborted,     \* the process has panicked
    src,         \* characters main() has handed to run_vm so far
    consumed,    \* bytes taken from the input source so far
    nreplay,     \* number of run_vm(.., true) calls made so far
    last,        \* what the most recent run_vm call was given and found
    skip_from,   \* ledger index of the loop-start that began the current skip, or -1
    entry        \* per frame: the cursor when that loop-end's run_vm call began

vars == <<status, frames, output, aborted, src, consumed, nreplay, last, skip_from, entry>>

(***************************************************************************)
(* Bounds                                                                  *)
(***************************************************************************)
MaxLen == 5          \* characters of an arbitrary source stream
MaxSteps == 12       \* replayed instructions of an arbitrary source stream
MaxProgSteps == 60   \* replayed instructions of a listed program
MaxN == 4            \* largest n of the programs  +^n [-]
MaxInput == 2        \* bytes the input source holds before it runs dry

(***************************************************************************)
(* Characters and input bytes                                              *)
(***************************************************************************)
ValidChars == {"+", "-", ">", "<", ".", ",", "[", "]"}
OtherChars == {"x", " "}
Chars == ValidChars \cup OtherChars

None == -1                       \* Option::None of the input source
Bytes == {0, 1, 255}             \* representative stdin bytes (u8)

(***************************************************************************)
(* Tape: HashMap<i32, i32>; a key is present once an entry() call touched  *)
(* it.                                                                     *)
(***************************************************************************)
EmptyTape == [k \in {} |-> 0]

\* tape.entry(k).or_insert(0), the map afterwards
Entry(t, k) == IF k \in DOMAIN t THEN t ELSE (k :> 0) @@ t

\* the value entry(k).or_insert(0) refers to
Get(t, k) == IF k \in DOMAIN t THEN t[k] ELSE 0

\* *entry(k).or_insert(0) = v
Put(t, k, v) == [Entry(t, k) EXCEPT ![k] = v]

(***************************************************************************)
(* Integer conversions of the print arm                                    *)
(***************************************************************************)
\* Rust's % on i32: the remainder has the sign of the dividend
RustRem(a, n) == IF a >= 0 THEN a % n ELSE -((-a) % n)

\* `as u8` of an i32: the low eight bits
AsU8(x) == x % 256

\* print!("{}", c) of the char with code point ch < 256: its UTF-8 bytes
Utf8(ch) == IF ch < 128 THEN <<ch>> ELSE <<192 + (ch \div 64), 128 + (ch % 64)>>

\* (out % 255) as u8
PrintByte(out) == AsU8(RustRem(out, 255))

(***************************************************************************)
(* new_brainfuck_status                                                    *)
(***************************************************************************)
new_brainfuck_status ==
    [ tape |-> EmptyTape,
      tape_ptr |-> 0,
      instruction |-> << >>,
      instruction_ptr_current |-> -1,
      instruction_loop_ptr |-> << >>,
      jump_loop |-> 0 ]

(***************************************************************************)
(* next_op                                                                 *)
(***************************************************************************)
BrainfuckOp(character) ==
    CASE character = "+" -> "IncrementValueOp"
      [] character = "-" -> "DecrementValueOp"
      [] character = ">" -> "IncrementPtrOp"
      [] character = "<" -> "DecrementPtrOp"
      [] character = "." -> "PrintOp"
      [] character = "," -> "ReadOp"
      [] character = "[" -> "LoopStartOp"
      [] character = "]" -> "LoopEndOp"
      [] OTHER -> "MonoStateOp"

\* next_op without the MonoStateOp arm of its inner match
next_op_AppendAll(st, character, via_loop) ==
    IF ~via_loop
    THEN [st EXCEPT !.instruction = Append(@, character),
                    !.instruction_ptr_current = @ + 1]
    ELSE st

\* next_op with the cursor increment outside the inner match
next_op_CountAll(st, character, via_loop) ==
    IF ~via_loop
    THEN IF BrainfuckOp(character) # "MonoStateOp"
         THEN [st EXCEPT !.instruction = Append(@, character),
                         !.instruction_ptr_current = @ + 1]
         ELSE [st EXCEPT !.instruction_ptr_current = @ + 1]
    ELSE st

\* next_op without the via_loop test
next_op_Always(st, character, via_loop) ==
    IF BrainfuckOp(character) # "MonoStateOp"
    THEN [st EXCEPT !.instruction = Append(@, character),
                    !.instruction_ptr_current = @ + 1]
    ELSE st

\* the status after next_op(status, character, via_loop)
next_op(st, character, via_loop) ==
    IF ~via_loop /\ BrainfuckOp(character) # "MonoStateOp"
    THEN [st EXCEPT !.instruction = Append(@, character),
                    !.instruction_ptr_current = @ + 1]
    ELSE st

(***************************************************************************)
(* The arms of run_vm.  Each yields                                        *)
(*   status : the status when the arm is left (or when it starts to loop)  *)
(*   out    : the bytes it printed                                         *)
(*   panic  : it panicked                                                  *)
(*   replay : it entered the `while` of the LoopEndOp arm                  *)
(***************************************************************************)
Result(st, out, panic, replay) ==
    [status |-> st, out |-> out, panic |-> panic, replay |-> replay]

\* IncrementValueOp on a cell kept as a byte
IncrementValueOp_Wrapping(st) ==
    IF st.jump_loop = 0
    THEN Result([st EXCEPT !.tape = Put(@, st.tape_ptr, (Get(@, st.tape_ptr) + 1) % 256)],
                << >>, FALSE, FALSE)
    ELSE Result(st, << >>, FALSE, FALSE)

IncrementValueOp(st) ==
    IF st.jump_loop = 0
    THEN Result([st EXCEPT !.tape = Put(@, st.tape_ptr, Get(@, st.tape_ptr) + 1)],
                << >>, FALSE, FALSE)
    ELSE Result(st, << >>, FALSE, FALSE)

\* DecrementValueOp on a cell that cannot go below 0
DecrementValueOp_Saturating(st) ==
    IF st.jump_loop = 0 /\ Get(st.tape, st.tape_ptr) > 0
    THEN Result([st EXCEPT !.tape = Put(@, st.tape_ptr, Get(@, st.tape_ptr) - 1)],
                << >>, FALSE, FALSE)
    ELSE Result(st, << >>, FALSE, FALSE)

DecrementValueOp(st) ==
    IF st.jump_loop = 0
    THEN Result([st EXCEPT !.tape = Put(@, st.tape_ptr, Get(@, st.tape_ptr) - 1)],
                << >>, FALSE, FALSE)
    ELSE Result(st, << >>, FALSE, FALSE)

IncrementPtrOp(st) ==
    IF st.jump_loop = 0
    THEN Result([st EXCEPT !.tape_ptr = @ + 1], << >>, FALSE, FALSE)
    ELSE Result(st, << >>, FALSE, FALSE)

DecrementPtrOp(st) ==
    IF st.jump_loop = 0
    THEN Result([st EXCEPT !.tape_ptr = @ - 1], << >>, FALSE, FALSE)
    ELSE Result(st, << >>, FALSE, FALSE)

\* PrintOp without the jump_loop test
PrintOp_NoSkipTest(st) ==
    Result([st EXCEPT !.tape = Entry(@, st.tape_ptr)],
           Utf8(PrintByte(Get(st.tape, st.tape_ptr))), FALSE, FALSE)

PrintOp(st) ==
    IF st.jump_loop = 0
    THEN Result([st EXCEPT !.tape = Entry(@, st.tape_ptr)],
                Utf8(PrintByte(Get(st.tape, st.tape_ptr))), FALSE, FALSE)
    ELSE Result(st, << >>, FALSE, FALSE)

\* ReadOp with input.unwrap_or(0)
ReadOp_Default(st, input) ==
    IF st.jump_loop = 0
    THEN Result([st EXCEPT !.tape = Put(@, st.tape_ptr, IF input = None THEN 0 ELSE input)],
                << >>, FALSE, FALSE)
    ELSE Result(st, << >>, FALSE, FALSE)

\* input is the Option<i32> the input source delivers: a byte or None
ReadOp(st, input) ==
    IF st.jump_loop = 0
    THEN IF input = None
         THEN Result([st EXCEPT !.tape = Entry(@, st.tape_ptr)], << >>, TRUE, FALSE)
         ELSE Result([st EXCEPT !.tape = Put(@, st.tape_ptr, input)], << >>, FALSE, FALSE)
    ELSE Result(st, << >>, FALSE, FALSE)

\* LoopStartOp that pushes the position after the loop-start
LoopStartOp_PushNext(st) ==
    LET t == Entry(st.tape, st.tape_ptr) IN
    IF t[st.tape_ptr] # 0 /\ st.jump_loop = 0
    THEN Result([st EXCEPT !.tape = t,
                           !.instruction_loop_ptr = Append(@, st.instruction_ptr_current + 1)],
                << >>, FALSE, FALSE)
    ELSE Result([st EXCEPT !.tape = t, !.jump_loop = @ + 1], << >>, FALSE, FALSE)

LoopStartOp(st) ==
    LET t == Entry(st.tape, st.tape_ptr) IN
    IF t[st.tape_ptr] # 0 /\ st.jump_loop = 0
    THEN Result([st EXCEPT !.tape = t,
                           !.instruction_loop_ptr = Append(@, st.instruction_ptr_current)],
                << >>, FALSE, FALSE)
    ELSE Result([st EXCEPT !.tape = t, !.jump_loop = @ + 1], << >>, FALSE, FALSE)

\* LoopEndOp with jump_loop used as a flag: any loop-end ends the skip
LoopEndOp_Flag(st) ==
    IF st.jump_loop # 0
    THEN Result([st EXCEPT !.jump_loop = 0], << >>, FALSE, FALSE)
    ELSE LET t == Entry(st.tape, st.tape_ptr) IN
         Result([st EXCEPT !.tape = t], << >>, FALSE, t[st.tape_ptr] # 0)

\* up to the outer `while`; the loops themselves are the Replay actions
LoopEndOp(st) ==
    IF st.jump_loop # 0
    THEN Result([st EXCEPT !.jump_loop = @ - 1], << >>, FALSE, FALSE)
    ELSE LET t == Entry(st.tape, st.tape_ptr) IN
         Result([st EXCEPT !.tape = t], << >>, FALSE, t[st.tape_ptr] # 0)

MonoStateOp(st) == Result(st, << >>, FALSE, FALSE)

\* run_vm(status, char_op, via_loop) up to the point where it returns,
\* panics or starts to replay
run_vm(st, char_op, via_loop, input) ==
    LET s1 == next_op(st, char_op, via_loop)
        op == BrainfuckOp(char_op)
    IN  CASE op = "IncrementValueOp" -> IncrementValueOp(s1)
          [] op = "DecrementValueOp" -> DecrementValueOp(s1)
          [] op = "IncrementPtrOp"   -> IncrementPtrOp(s1)
          [] op = "DecrementPtrOp"   -> DecrementPtrOp(s1)
          [] op = "PrintOp"          -> PrintOp(s1)
          [] op = "ReadOp"           -> ReadOp(s1, input)
          [] op = "LoopStartOp"      -> LoopStartOp(s1)
          [] op = "LoopEndOp"        -> LoopEndOp(s1)
          [] OTHER                   -> MonoStateOp(s1)

(***************************************************************************)
(* Programs of the second specification                                    *)
(***************************************************************************)
\* +^n [-]
PlusLoop(n) == [i \in 1..(n + 3) |-> IF i <= n THEN "+" ELSE <<"[", "-", "]">>[i - n]]

NestedProgram == <<"+","+","[",">","+","+","[",">","+","<","-","]","<","-","]">>
InnerOnceProgram == <<"+","+","[",">","+","[","-","]","<","-","]">>
InnerMoveProgram == <<"+","[","+","[","-",">","]","+","<","]">>
PrintProgram == <<"+","+","+",".">>
SkipProgram == <<"[","-","]">>
UnbalancedProgram == <<"+","]">>

Programs ==
    {NestedProgram, InnerOnceProgram, InnerMoveProgram, PrintProgram,
     SkipProgram, UnbalancedProgram} \cup {PlusLoop(n) : n \in 1..MaxN}

(***************************************************************************)
(* State machine                                                           *)
(***************************************************************************)
Frame(pc, current) == [pc |-> pc, current |-> current]

NoCall == [c |-> "", via_loop |-> FALSE, jump_loop |-> 0, cell |-> 0, depth |-> 0, idx |-> -1]

Init ==
    /\ status = new_brainfuck_status
    /\ frames = << >>
    /\ output = << >>
    /\ aborted = FALSE
    /\ src = << >>
    /\ consumed = << >>
    /\ nreplay = 0
    /\ last = NoCall
    /\ skip_from = -1
    /\ entry = << >>

\* what the input source may deliver to this call: only an executed ReadOp asks
Inputs(st, c) ==
    IF BrainfuckOp(c) = "ReadOp" /\ st.jump_loop = 0 /\ Len(consumed) < MaxInput
    THEN Bytes \cup {None} ELSE {None}

\* the record of a run_vm call: its arguments and what it found on entry
Call(st, c, via_loop) ==
    [ c |-> c, via_loop |-> via_loop, jump_loop |-> st.jump_loop,
      cell |-> Get(st.tape, st.tape_ptr), depth |-> Len(st.instruction_loop_ptr),
      idx |-> next_op(st, c, via_loop).instruction_ptr_current ]

\* the loop-start whose call took jump_loop from 0 to 1, while jump_loop > 0
SkipFrom(st, c, via_loop, after) ==
    IF after.jump_loop = 0 THEN -1
    ELSE IF st.jump_loop = 0 THEN Call(st, c, via_loop).idx
    ELSE skip_from

Consume(st, c, input) ==
    IF BrainfuckOp(c) = "ReadOp" /\ st.jump_loop = 0 /\ input # None
    THEN Append(consumed, input) ELSE consumed

\* main(): run_vm(&mut status, c, false) for the next character of the source
Dispatch(c) ==
    /\ frames = << >>
    /\ ~aborted
    /\ \E input \in Inputs(status, c) :
         LET r == run_vm(status, c, FALSE, input) IN
         /\ status' = r.status
         /\ output' = output \o r.out
         /\ aborted' = r.panic
         /\ frames' = IF r.replay
                      THEN <<Frame("outer", r.status.instruction_ptr_current)>>
                      ELSE << >>
         /\ consumed' = Consume(status, c, input)
         /\ skip_from' = SkipFrom(status, c, FALSE, r.status)
         /\ entry' = IF r.replay
                     THEN <<next_op(status, c, FALSE).instruction_ptr_current>>
                     ELSE << >>
    /\ src' = Append(src, c)
    /\ last' = Call(status, c, FALSE)
    /\ UNCHANGED nreplay

\* an arbitrary source stream of at most MaxLen characters
Feed(c) ==
    /\ Len(src) < MaxLen
    /\ Dispatch(c)

\* the source stream is one of Programs
FeedProg ==
    \E p \in Programs :
        /\ Len(src) < Len(p)
        /\ src = SubSeq(p, 1, Len(src))
        /\ Dispatch(p[Len(src) + 1])

Top == frames[Len(frames)]
SetTop(f) == [frames EXCEPT ![Len(frames)] = f]
Cell == Get(status.tape, status.tape_ptr)

\* ReplayBegin that starts the pass at the loop-start itself (last, not last + 1)
ReplayBegin_AtLoopStart ==
    /\ ~aborted /\ frames # << >> /\ Top.pc = "outer"
    /\ Cell # 0
    /\ status.instruction_loop_ptr # << >>
    /\ LET lp == status.instruction_loop_ptr IN
       /\ status' = [status EXCEPT !.tape = Entry(@, status.tape_ptr),
                                   !.instruction_ptr_current = lp[Len(lp)]]
       /\ frames' = SetTop(Frame("inner", status.instruction_ptr_current))
    /\ UNCHANGED <<output, aborted, src, consumed, nreplay, last, skip_from, entry>>

\* ReplayBegin with line 196 after line 199: `current` saved too late
ReplayBegin_SaveAfter ==
    /\ ~aborted /\ frames # << >> /\ Top.pc = "outer"
    /\ Cell # 0
    /\ status.instruction_loop_ptr # << >>
    /\ LET lp == status.instruction_loop_ptr IN
       /\ status' = [status EXCEPT !.tape = Entry(@, status.tape_ptr),
                                   !.instruction_ptr_current = lp[Len(lp)] + 1]
       /\ frames' = SetTop(Frame("inner", lp[Len(lp)] + 1))
    /\ UNCHANGED <<output, aborted, src, consumed, nreplay, last, skip_from, entry>>

\* line 194 true, line 198 Some(last): line 196 and line 199
ReplayBegin ==
    /\ ~aborted /\ frames # << >> /\ Top.pc = "outer"
    /\ Cell # 0
    /\ status.instruction_loop_ptr # << >>
    /\ LET lp == status.instruction_loop_ptr IN
       /\ status' = [status EXCEPT !.tape = Entry(@, status.tape_ptr),
                                   !.instruction_ptr_current = lp[Len(lp)] + 1]
       /\ frames' = SetTop(Frame("inner", status.instruction_ptr_current))
    /\ UNCHANGED <<output, aborted, src, consumed, nreplay, last, skip_from, entry>>

\* line 194 true, line 198 None: the body of the `while` changes nothing, so
\* the test stays true for ever; pc "spin" stands for that endless loop
ReplaySpin ==
    /\ ~aborted /\ frames # << >> /\ Top.pc = "outer"
    /\ Cell # 0
    /\ status.instruction_loop_ptr = << >>
    /\ status' = [status EXCEPT !.tape = Entry(@, status.tape_ptr)]
    /\ frames' = SetTop(Frame("spin", Top.current))
    /\ UNCHANGED <<output, aborted, src, consumed, nreplay, last, skip_from, entry>>

\* line 200 true: lines 203-205; a nested call that replays leaves this
\* activation waiting at line 204
ReplayStep(limit) ==
    /\ ~aborted /\ frames # << >> /\ Top.pc = "inner"
    /\ status.instruction_ptr_current < Top.current
    /\ nreplay < limit
    /\ LET i == status.instruction_ptr_current IN
       IF i < 0 \/ i >= Len(status.instruction)
       THEN \* index out of bounds
            /\ aborted' = TRUE
            /\ UNCHANGED <<status, frames, output, consumed, nreplay, last, skip_from, entry>>
       ELSE LET c == status.instruction[i + 1] IN
            /\ \E input \in Inputs(status, c) :
                 LET r == run_vm(status, c, TRUE, input) IN
                 /\ output' = output \o r.out
                 /\ aborted' = r.panic
                 /\ consumed' = Consume(status, c, input)
                 /\ skip_from' = SkipFrom(status, c, TRUE, r.status)
                 /\ entry' = IF ~r.panic /\ r.replay THEN Append(entry, i) ELSE entry
                 /\ IF r.panic
                    THEN status' = r.status /\ frames' = frames
                    ELSE IF r.replay
                    THEN /\ status' = r.status
                         /\ frames' = Append(SetTop(Frame("call", Top.current)),
                                             Frame("outer", r.status.instruction_ptr_current))
                    ELSE /\ status' = [r.status EXCEPT !.instruction_ptr_current = @ + 1]
                         /\ frames' = frames
            /\ nreplay' = nreplay + 1
            /\ last' = Call(status, c, TRUE)
    /\ UNCHANGED src

\* line 200 false: line 208
ReplayRestore ==
    /\ ~aborted /\ frames # << >> /\ Top.pc = "inner"
    /\ status.instruction_ptr_current >= Top.current
    /\ status' = [status EXCEPT !.instruction_ptr_current = Top.current]
    /\ frames' = SetTop(Frame("outer", Top.current))
    /\ UNCHANGED <<output, aborted, src, consumed, nreplay, last, skip_from, entry>>

\* line 194 false: line 212, and run_vm returns; a caller at line 204
\* goes on with line 205
ReplayEnd ==
    /\ ~aborted /\ frames # << >> /\ Top.pc = "outer"
    /\ Cell = 0
    /\ LET lp == status.instruction_loop_ptr
           popped == IF lp = << >> THEN lp ELSE SubSeq(lp, 1, Len(lp) - 1)
           rest == SubSeq(frames, 1, Len(frames) - 1)
       IN  IF rest = << >>
           THEN /\ status' = [status EXCEPT !.tape = Entry(@, status.tape_ptr),
                                            !.instruction_loop_ptr = popped]
                /\ frames' = rest
           ELSE /\ status' = [status EXCEPT !.tape = Entry(@, status.tape_ptr),
                                            !.instruction_loop_ptr = popped,
                                            !.instruction_ptr_current = @ + 1]
                /\ frames' = [rest EXCEPT ![Len(rest)] = Frame("inner", rest[Len(rest)].current)]
    /\ entry' = SubSeq(entry, 1, Len(entry) - 1)
    /\ UNCHANGED <<output, aborted, src, consumed, nreplay, last, skip_from>>

Next ==
    \/ \E c \in Chars : Feed(c)
    \/ ReplayBegin
    \/ ReplaySpin
    \/ ReplayStep(MaxSteps)
    \/ ReplayRestore
    \/ ReplayEnd

Spec == Init /\ [][Next]_vars

NextProg ==
    \/ FeedProg
    \/ ReplayBegin
    \/ ReplaySpin
    \/ ReplayStep(MaxProgSteps)
    \/ ReplayRestore
    \/ ReplayEnd

SpecProg == Init /\ [][NextProg]_vars

\* the replay loops always take their next step; whether the source delivers
\* another character is up to the source
Replaying ==
    ReplayBegin \/ ReplaySpin \/ ReplayStep(MaxProgSteps) \/ ReplayRestore \/ ReplayEnd

FairProg == SpecProg /\ WF_vars(Replaying)

(***************************************************************************)
(* Vocabulary of the properties                                            *)
(***************************************************************************)
Idle == frames = << >> /\ ~aborted

\* this step is a run_vm call
Called == src' # src \/ nreplay' # nreplay

\* the logical content of two tapes is the same (absent cell = 0)
SameCells(t1, t2) == \A k \in DOMAIN t1 \cup DOMAIN t2 : Get(t1, k) = Get(t2, k)

Count(p, c) == Cardinality({i \in 1..Len(p) : p[i] = c})

\* nesting depth after the first n characters of p
DepthAt(p, n) ==
    Cardinality({i \in 1..n : p[i] = "["}) - Cardinality({i \in 1..n : p[i] = "]"})

Balanced(p) ==
    /\ \A n \in 0..Len(p) : DepthAt(p, n) >= 0
    /\ DepthAt(p, Len(p)) = 0

\* position of the bracket matching the bracket at position i of a balanced p
MatchOf(p, i) ==
    IF p[i] = "["
    THEN CHOOSE j \in (i + 1)..Len(p) :
            /\ DepthAt(p, j) = DepthAt(p, i - 1)
            /\ \A m \in i..(j - 1) : DepthAt(p, m) > DepthAt(p, i - 1)
    ELSE CHOOSE j \in 1..(i - 1) :
            /\ DepthAt(p, j - 1) = DepthAt(p, i)
            /\ \A m \in j..(i - 1) : DepthAt(p, m) > DepthAt(p, i)

(***************************************************************************)
(* The standard semantics: an interpreter that jumps between matching      *)
(* brackets, run for at most `fuel` instructions on a program without `,`. *)
(***************************************************************************)
RefFuel == 200

RECURSIVE RefRun(_, _, _, _, _, _)
RefRun(p, pc, t, ptr, out, fuel) ==
    IF pc > Len(p) THEN [done |-> TRUE, tape |-> t, tape_ptr |-> ptr, out |-> out]
    ELSE IF fuel = 0 THEN [done |-> FALSE, tape |-> t, tape_ptr |-> ptr, out |-> out]
    ELSE LET c == p[pc] IN
         CASE c = "+" -> RefRun(p, pc + 1, Put(t, ptr, Get(t, ptr) + 1), ptr, out, fuel - 1)
           [] c = "-" -> RefRun(p, pc + 1, Put(t, ptr, Get(t, ptr) - 1), ptr, out, fuel - 1)
           [] c = ">" -> RefRun(p, pc + 1, t, ptr + 1, out, fuel - 1)
           [] c = "<" -> RefRun(p, pc + 1, t, ptr - 1, out, fuel - 1)
           [] c = "." -> RefRun(p, pc + 1, t, ptr, Append(out, Get(t, ptr) % 256), fuel - 1)
           [] c = "[" -> RefRun(p, IF Get(t, ptr) = 0 THEN MatchOf(p, pc) + 1 ELSE pc + 1,
                                t, ptr, out, fuel - 1)
           [] c = "]" -> RefRun(p, IF Get(t, ptr) # 0 THEN MatchOf(p, pc) + 1 ELSE pc + 1,
                                t, ptr, out, fuel - 1)
           [] OTHER -> RefRun(p, pc + 1, t, ptr, out, fuel - 1)

Reference(p) == RefRun(p, 1, EmptyTape, 0, << >>, RefFuel)

(***************************************************************************)
(* C1: for every bracket-balanced program whose standard execution         *)
(* terminates, feeding its characters one by one to run_vm leaves the same *)
(* tape contents, tape pointer and output as the standard execution.       *)
(***************************************************************************)
C1_SameAsReference ==
    (Idle /\ Balanced(src) /\ Count(src, ",") = 0 /\ Reference(src).done)
        => /\ SameCells(status.tape, Reference(src).tape)
           /\ status.tape_ptr = Reference(src).tape_ptr
           /\ output = Reference(src).out

(***************************************************************************)
(* C2: every output instruction executed with skip depth 0 emits exactly   *)
(* one byte, the value of the current cell modulo 256.                     *)
(***************************************************************************)
C2_OutputMod256 ==
    [][(Called /\ last'.c = "." /\ last'.jump_loop = 0)
          => output' = Append(output, last'.cell % 256)]_vars

(***************************************************************************)
(* C3: a loop-end processed with skip depth 0 and an empty loop-start      *)
(* stack puts the engine in an aborted state.                              *)
(***************************************************************************)
C3_UnderflowIsFatal ==
    (last.c = "]" /\ last.jump_loop = 0 /\ last.depth = 0) => aborted

(***************************************************************************)
(* C4: a loop-start met with skip depth 0 and a zero cell starts a skip;   *)
(* while the skip lasts no tape value, tape pointer, output or input       *)
(* position changes, the instructions are taken in ledger order, skip      *)
(* depth is the bracket depth of the ledger from that loop-start to the    *)
(* instruction just taken (so it is > 0 strictly inside), and it returns   *)
(* to 0 exactly at the loop-end matching that loop-start.                  *)
(***************************************************************************)
\* bracket depth of the ledger entries with indices a..b (0-based)
SegDepth(L, a, b) ==
    Cardinality({i \in a..b : L[i + 1] = "["}) - Cardinality({i \in a..b : L[i + 1] = "]"})

C4_Step ==
    /\ (Called /\ last'.c = "[" /\ last'.jump_loop = 0 /\ last'.cell = 0)
          => status'.jump_loop = 1 /\ skip_from' = last'.idx
    /\ status.jump_loop > 0
          => /\ SameCells(status.tape, status'.tape)
             /\ status'.tape_ptr = status.tape_ptr
             /\ output' = output
             /\ consumed' = consumed
             /\ (Called /\ last'.c \in ValidChars) => last'.idx = last.idx + 1
    /\ status'.jump_loop > 0
          => /\ skip_from' >= 0 /\ skip_from' <= last'.idx
             /\ status'.instruction[skip_from' + 1] = "["
             /\ status'.jump_loop = SegDepth(status'.instruction, skip_from', last'.idx)
    /\ (status.jump_loop > 0 /\ status'.jump_loop = 0)
          => /\ last'.c = "]"
             /\ SegDepth(status'.instruction, skip_from, last'.idx) = 0
             /\ \A m \in skip_from..(last'.idx - 1) :
                    SegDepth(status'.instruction, skip_from, m) > 0

C4_ZeroIterations == [][C4_Step]_vars

\* a skip over a body with a nested bracket pair has just ended
C4_Witness ==
    /\ last.c = "]" /\ last.jump_loop = 1 /\ status.jump_loop = 0
    /\ last.idx >= 3
    /\ status.instruction[last.idx] = "]"
    /\ SegDepth(status.instruction, last.idx - 3, last.idx) = 0
    /\ SameCells(status.tape, EmptyTape)

(***************************************************************************)
(* C5: for every n in 1..MaxN the program +^n [-] terminates with cell 0   *)
(* at 0 and the tape pointer at 0 after one live pass and exactly n-1      *)
(* replayed executions of the body.                                        *)
(***************************************************************************)
C5_PlusLoop ==
    /\ \A n \in 1..MaxN :
         [](src = PlusLoop(n)
              => /\ nreplay <= n - 1
                 /\ Idle => /\ Get(status.tape, 0) = 0
                            /\ status.tape_ptr = 0
                            /\ nreplay = n - 1
                            /\ last.c = "-" \/ n = 1)
    /\ \A n \in 1..MaxN :
         (src = PlusLoop(n)) ~> (src = PlusLoop(n) /\ Idle)

C5_Witness ==
    /\ src = PlusLoop(3) /\ Idle
    /\ nreplay = 2
    /\ Get(status.tape, 0) = 0

(***************************************************************************)
(* C6: for every program without loop-start and loop-end, after execution  *)
(* each cell holds the number of `+` minus the number of `-` executed      *)
(* while the tape pointer was at it, the tape pointer is the number of     *)
(* `>` minus the number of `<`, and never-visited cells read 0.            *)
(***************************************************************************)
\* tape pointer of a loop-free program after its first n characters
PtrAt(p, n) ==
    Cardinality({i \in 1..n : p[i] = ">"}) - Cardinality({i \in 1..n : p[i] = "<"})

CellNet(p, k) ==
    Cardinality({i \in 1..Len(p) : p[i] = "+" /\ PtrAt(p, i - 1) = k})
      - Cardinality({i \in 1..Len(p) : p[i] = "-" /\ PtrAt(p, i - 1) = k})

NetEffect ==
    /\ \A k \in (DOMAIN status.tape) \cup ((0 - Len(src))..Len(src)) :
          Get(status.tape, k) = CellNet(src, k)
    /\ status.tape_ptr = PtrAt(src, Len(src))

C6_Original ==
    (Idle /\ Count(src, "[") = 0 /\ Count(src, "]") = 0) => NetEffect

\* C6 as amended: the same for every program without loop-start, loop-end
\* and input instruction.
C6_LoopAndInputFree ==
    (Idle /\ Count(src, "[") = 0 /\ Count(src, "]") = 0 /\ Count(src, ",") = 0)
        => NetEffect

C6_Witness ==
    /\ Idle /\ Count(src, "[") = 0 /\ Count(src, "]") = 0 /\ Count(src, ",") = 0
    /\ status.tape_ptr = 1
    /\ Get(status.tape, 0) = 2
    /\ Get(status.tape, 1) = -1

(***************************************************************************)
(* C7: dispatching a character other than + - > < . , [ ] changes nothing: *)
(* ledger, cursor, tape, tape pointer, loop-start stack, skip depth,       *)
(* output and input position stay as they are.                             *)
(***************************************************************************)
C7_OtherCharInert ==
    [][\A c \in OtherChars :
          src' = Append(src, c)
             => UNCHANGED <<status, frames, output, aborted, consumed, skip_from>>]_vars

\* an unrecognized character was dispatched during a skip
C7_Witness ==
    /\ last.c \in OtherChars
    /\ status.jump_loop > 0
    /\ status.instruction_loop_ptr # << >>

(***************************************************************************)
(* C8: an input instruction executed with skip depth 0 while the input     *)
(* source has no byte aborts the run at once: the cell keeps its value,    *)
(* nothing is printed, and no step follows; an input instruction reached   *)
(* while skip depth > 0 neither aborts nor consumes a byte.                *)
(***************************************************************************)
C8_Step ==
    /\ (Called /\ last'.c = "," /\ last'.jump_loop = 0 /\ consumed' = consumed)
          => /\ aborted'
             /\ SameCells(status.tape, status'.tape)
             /\ output' = output
    /\ (Called /\ last'.c = "," /\ last'.jump_loop > 0)
          => /\ ~aborted'
             /\ consumed' = consumed
    /\ aborted => UNCHANGED vars

C8_InputUnavailable == [][C8_Step]_vars

\* the run was aborted by a replayed input instruction on a non-zero cell
C8_Witness ==
    /\ aborted
    /\ last.c = "," /\ last.via_loop
    /\ Get(status.tape, status.tape_ptr) # 0

(***************************************************************************)
(* C10: a loop-end processed with skip depth 0 and a zero cell pops the    *)
(* loop-start stack by exactly one entry and replays nothing.              *)
(***************************************************************************)
C10_PopOnZero ==
    [][(Called /\ last'.c = "]" /\ last'.jump_loop = 0 /\ last'.cell = 0 /\ last'.depth > 0)
          => /\ Len(status'.instruction_loop_ptr) = Len(status.instruction_loop_ptr) - 1
             /\ frames' = frames]_vars

(***************************************************************************)
(* C11: after a live character of a program prefix has been fully         *)
(* processed, the depth of the loop-start stack is the number of open     *)
(* loops that were entered (the open loops less those being skipped); in  *)
(* particular after a bracket-balanced program the stack is empty and     *)
(* skip depth is 0.                                                       *)
(***************************************************************************)
PrefixBalanced(p) == \A n \in 0..Len(p) : DepthAt(p, n) >= 0

C11_StackDepth ==
    (Idle /\ PrefixBalanced(src))
        => /\ Len(status.instruction_loop_ptr) = DepthAt(src, Len(src)) - status.jump_loop
           /\ Balanced(src) => /\ status.instruction_loop_ptr = << >>
                               /\ status.jump_loop = 0

(***************************************************************************)
(* C12: whenever a loop-end of a bracket-balanced program starts a replay  *)
(* pass, the top of the loop-start stack is the ledger position of the     *)
(* loop-start matching this loop-end, so the pass starts just after that   *)
(* loop-start and stops before this loop-end.                              *)
(***************************************************************************)
\* this step starts a replay pass
PassBegins ==
    /\ frames # << >> /\ Top.pc = "outer"
    /\ Len(frames') = Len(frames)
    /\ frames'[Len(frames)].pc = "inner"

C12_ReplayFromMatch ==
    [][(PassBegins /\ PrefixBalanced(status.instruction))
          => LET lp == status.instruction_loop_ptr
                 here == status.instruction_ptr_current
             IN  /\ status.instruction[here + 1] = "]"
                 /\ lp[Len(lp)] + 1 = MatchOf(status.instruction, here + 1)
                 /\ status'.instruction_ptr_current = lp[Len(lp)] + 1
                 /\ frames'[Len(frames)].current = here]_vars

(***************************************************************************)
(* C13: the cursor is -1 initially; after every fully processed live       *)
(* character it is ledger length - 1; and a loop-end, live or replayed at  *)
(* any depth, has the cursor back at the value it had when its processing  *)
(* began whenever it tests its loop condition and when it returns (the     *)
(* caller of a replayed loop-end then advances it by one).                 *)
(***************************************************************************)
C13_Step ==
    /\ Idle' => status'.instruction_ptr_current = Len(status'.instruction) - 1
    /\ (frames' # << >> /\ frames'[Len(frames')].pc \in {"outer", "spin"})
          => status'.instruction_ptr_current = entry'[Len(entry')]
    /\ Len(frames') < Len(frames)
          => status'.instruction_ptr_current
                = entry[Len(entry)] + (IF frames' = << >> THEN 0 ELSE 1)

C13_Cursor == status.instruction_ptr_current = -1 /\ [][C13_Step]_vars

\* a loop-end replayed inside a replay pass tests its loop condition again
C13_Witness ==
    /\ Len(frames) = 2 /\ Top.pc = "outer"
    /\ frames[1].pc = "call"
    /\ entry[2] < entry[1]
    /\ nreplay > entry[1]

(***************************************************************************)
(* C14: the ledger is append-only and is always the valid instruction      *)
(* characters of the source consumed so far, in order: a live valid        *)
(* character appends one entry (also during a skip), a replayed            *)
(* instruction and an unrecognized character append nothing.               *)
(***************************************************************************)
IsValidChar(c) == c \in ValidChars
ValidOnly(p) == SelectSeq(p, IsValidChar)

C14_Step ==
    /\ status'.instruction = ValidOnly(src')
    /\ SubSeq(status'.instruction, 1, Len(status.instruction)) = status.instruction
    /\ nreplay' # nreplay => status'.instruction = status.instruction
    /\ \A c \in OtherChars :
          src' = Append(src, c) => status'.instruction = status.instruction
    /\ \A c \in ValidChars :
          src' = Append(src, c) => status'.instruction = Append(status.instruction, c)

C14_Ledger == [][C14_Step]_vars

\* instructions were replayed and an unrecognized character was read
C14_Witness ==
    /\ nreplay > 0
    /\ Len(status.instruction) < Len(src)
    /\ Len(status.instruction) >= 3

(***************************************************************************)
(* C15: a run_vm call made while skip depth > 0 changes nothing but skip   *)
(* depth: tape values, tape pointer, output, input position and loop-start *)
(* stack stay, nothing is replayed and nothing aborts; a loop-start adds   *)
(* one to skip depth, a loop-end takes one off, any other instruction      *)
(* leaves it; and skip depth is never negative.                            *)
(***************************************************************************)
C15_Step ==
    /\ status'.jump_loop >= 0
    /\ (Called /\ last'.jump_loop > 0)
          => /\ SameCells(status.tape, status'.tape)
             /\ status'.tape_ptr = status.tape_ptr
             /\ output' = output
             /\ consumed' = consumed
             /\ status'.instruction_loop_ptr = status.instruction_loop_ptr
             /\ frames' = frames
             /\ ~aborted'
             /\ status'.jump_loop =
                   status.jump_loop + (CASE last'.c = "[" -> 1
                                         [] last'.c = "]" -> -1
                                         [] OTHER -> 0)

C15_SkipIsInert == [][C15_Step]_vars

\* an output instruction was met two levels deep in a skip, after some output
C15_Witness ==
    /\ last.c = "." /\ last.jump_loop = 2
    /\ status.jump_loop = 2
    /\ output # << >>

(***************************************************************************)
(* C16: a loop-start processed with skip depth 0 and a non-zero cell,      *)
(* live or replayed, pushes exactly one entry, the ledger index of that    *)
(* loop-start, and leaves skip depth unchanged; every entry of the         *)
(* loop-start stack is an in-range ledger index holding `[`.               *)
(***************************************************************************)
C16_Step ==
    /\ (Called /\ last'.c = "[" /\ last'.jump_loop = 0 /\ last'.cell # 0)
          => /\ status'.instruction_loop_ptr
                   = Append(status.instruction_loop_ptr, last'.idx)
             /\ last'.idx = (IF last'.via_loop THEN status.instruction_ptr_current
                                               ELSE Len(status.instruction))
             /\ status'.jump_loop = 0
    /\ \A k \in 1..Len(status'.instruction_loop_ptr) :
          LET e == status'.instruction_loop_ptr[k] IN
          /\ e >= 0 /\ e < Len(status'.instruction)
          /\ status'.instruction[e + 1] = "["

C16_PushLoopStart == [][C16_Step]_vars

\* a replayed loop-start has just pushed its ledger index
C16_Witness ==
    /\ last.c = "[" /\ last.via_loop /\ last.jump_loop = 0 /\ last.cell # 0
    /\ status.instruction_loop_ptr # << >>
    /\ status.instruction_loop_ptr[Len(status.instruction_loop_ptr)] = last.idx
    /\ status.instruction_ptr_current = last.idx + 1

(***************************************************************************)
(* C17: an executed increment stores the cell value plus one and an        *)
(* executed decrement the cell value minus one, with no reduction modulo   *)
(* 256: 255 + 1 is stored as 256, which a loop-start treats as non-zero,   *)
(* and 0 - 1 is stored as -1.                                              *)
(***************************************************************************)
C17_Step ==
    /\ (Called /\ last'.c = "+" /\ last'.jump_loop = 0)
          => Get(status'.tape, status'.tape_ptr) = last'.cell + 1
    /\ (Called /\ last'.c = "-" /\ last'.jump_loop = 0)
          => Get(status'.tape, status'.tape_ptr) = last'.cell - 1
    /\ (Called /\ last'.c = "[" /\ last'.jump_loop = 0 /\ last'.cell = 256)
          => /\ status'.jump_loop = 0
             /\ Len(status'.instruction_loop_ptr) = Len(status.instruction_loop_ptr) + 1

C17_PlainArithmetic == [][C17_Step]_vars

\* a loop-start entered on a cell holding 256
C17_Witness ==
    /\ last.c = "[" /\ last.jump_loop = 0 /\ last.cell = 256
    /\ status.instruction_loop_ptr # << >>
    /\ status.jump_loop = 0

(***************************************************************************)
(* C18: for every character sequence, balanced or not, every ledger read   *)
(* of a replay pass is in range: the replay cursor is at least 0 and less  *)
(* than the saved cursor, which is at most ledger length - 1; the read     *)
(* never goes out of bounds.                                               *)
(***************************************************************************)
C18_ReplayInBounds ==
    /\ \A k \in 1..Len(frames) :
          frames[k].pc \in {"inner", "call"}
             => frames[k].current <= Len(status.instruction) - 1
    /\ (frames # << >> /\ Top.pc = "inner")
          => /\ status.instruction_ptr_current >= 0
             /\ status.instruction_ptr_current <= Top.current
    /\ aborted => last.c = ","

\* a replay pass is about to read the last ledger entry before the loop-end
C18_Witness ==
    /\ frames # << >> /\ Top.pc = "inner" /\ ~aborted
    /\ status.instruction_ptr_current = Top.current - 1
    /\ Top.current = Len(status.instruction) - 1
    /\ Count(src, "]") > Count(src, "[")

====
